---------------------------- MODULE Spec2Model ----------------------------
(***************************************************************************)
(* Model of src/handler.py: the RunPod job handler for Wan 2.1 image-to-   *)
(* video generation.  async_generator_handler is an async generator; each  *)
(* action below is one resumption of it (the code between two yields),     *)
(* with the exception handler of lines 237-258 folded into the resumption  *)
(* that raises.  load_model is additionally split at the points where a    *)
(* thread-based host can switch threads (the construction call of lines    *)
(* 80-89 and the two stores of lines 91-92).                               *)
(*                                                                         *)
(* Text that the code inspects (exception messages, URLs, resolutions) is  *)
(* a sequence of one-character strings, so that str.lower() and the `in`   *)
(* substring test are computed rather than assumed.                        *)
(***************************************************************************)
EXTENDS Integers, Sequences, FiniteSets, TLC

VARIABLES
    host,          \* how the platform schedules jobs: "serial" or "threads"
    model_cache,   \* the global dict of line 24
    constructions, \* number of wan.WanI2V(...) calls that returned a model
    files,         \* output files that exist under /tmp, named by job number
    jobsStarted,   \* number of handler invocations so far
    pc,            \* per slot: where the generator is suspended
    job,           \* per slot: the job argument
    jobno,         \* per slot: serial number of the job (names output_path)
    built,         \* per slot: load_model's local `model` during construction
    model,         \* per slot: the handler's local `model` (a handle number)
    log            \* per slot: yields and collaborator calls, in order

vars == << host, model_cache, constructions, files, jobsStarted,
           pc, job, jobno, built, model, log >>

\* Number of jobs the process handles in a run.
MaxJobs == 2

\* Job slots of the worker process.
Slots == {1, 2}

(***************************************************************************)
(* Text                                                                    *)
(***************************************************************************)
UpperChars ==
    << "A","B","C","D","E","F","G","H","I","J","K","L","M",
       "N","O","P","Q","R","S","T","U","V","W","X","Y","Z" >>

LowerChars ==
    << "a","b","c","d","e","f","g","h","i","j","k","l","m",
       "n","o","p","q","r","s","t","u","v","w","x","y","z" >>

\* str.lower() on one character
LowerChar(c) ==
    IF \E i \in 1..Len(UpperChars) : UpperChars[i] = c
    THEN LowerChars[CHOOSE i \in 1..Len(UpperChars) : UpperChars[i] = c]
    ELSE c

\* str.lower()
Lower(s) == [i \in 1..Len(s) |-> LowerChar(s[i])]

\* `k in s` for strings
Contains(s, k) ==
    \E i \in 1..(Len(s) - Len(k) + 1) : SubSeq(s, i, i + Len(k) - 1) = k

\* "download"
KwDownload ==
    << "d","o","w","n","l","o","a","d" >>

\* "model"
KwModel ==
    << "m","o","d","e","l" >>

\* "memory"
KwMemory ==
    << "m","e","m","o","r","y" >>

\* "cuda"
KwCuda ==
    << "c","u","d","a" >>

\* "upload"
KwUpload ==
    << "u","p","l","o","a","d" >>

\* "http://x/img.jpg"
ImgUrl ==
    << "h","t","t","p",":","/","/","x","/","i","m","g",".","j","p","g" >>

\* "http://x/model.jpg"
ModelImgUrl ==
    << "h","t","t","p",":","/","/","x","/","m","o","d","e","l",".","j","p",
       "g" >>

\* "a cat"
PromptText ==
    << "a"," ","c","a","t" >>

\* "Failed to download image from "
DownloadPrefix ==
    << "F","a","i","l","e","d"," ","t","o"," ","d","o","w","n","l","o","a",
       "d"," ","i","m","a","g","e"," ","f","r","o","m"," " >>

\* ": "
ColonSpace ==
    << ":"," " >>

\* "404 Client Error: Not Found"
FetchErrHttp ==
    << "4","0","4"," ","C","l","i","e","n","t"," ","E","r","r","o","r",":",
       " ","N","o","t"," ","F","o","u","n","d" >>

\* "cannot identify image file"
FetchErrDecode ==
    << "c","a","n","n","o","t"," ","i","d","e","n","t","i","f","y"," ","i",
       "m","a","g","e"," ","f","i","l","e" >>

\* "Model path not found: "
ModelPathPrefix ==
    << "M","o","d","e","l"," ","p","a","t","h"," ","n","o","t"," ","f","o",
       "u","n","d",":"," " >>

\* "/workspace/Wan2.1/models/Wan2.1-I2V-14B-720P"
DefaultModelPath ==
    << "/","w","o","r","k","s","p","a","c","e","/","W","a","n","2",".","1",
       "/","m","o","d","e","l","s","/","W","a","n","2",".","1","-","I","2",
       "V","-","1","4","B","-","7","2","0","P" >>

\* "CUDA out of memory"
MsgCudaOom ==
    << "C","U","D","A"," ","o","u","t"," ","o","f"," ","m","e","m","o","r",
       "y" >>

\* "Error(s) in loading state_dict for WanModel"
MsgStateDict ==
    << "E","r","r","o","r","(","s",")"," ","i","n"," ","l","o","a","d","i",
       "n","g"," ","s","t","a","t","e","_","d","i","c","t"," ","f","o","r",
       " ","W","a","n","M","o","d","e","l" >>

\* "Expected all tensors to be on the same device"
MsgDevice ==
    << "E","x","p","e","c","t","e","d"," ","a","l","l"," ","t","e","n","s",
       "o","r","s"," ","t","o"," ","b","e"," ","o","n"," ","t","h","e"," ",
       "s","a","m","e"," ","d","e","v","i","c","e" >>

\* "'>=' not supported between instances of 'str' and 'int'"
MsgSeedType ==
    << "'",">","=","'"," ","n","o","t"," ","s","u","p","p","o","r","t","e",
       "d"," ","b","e","t","w","e","e","n"," ","i","n","s","t","a","n","c",
       "e","s"," ","o","f"," ","'","s","t","r","'"," ","a","n","d"," ","'",
       "i","n","t","'" >>

\* "[Errno 28] No space left on device"
MsgNoSpace ==
    << "[","E","r","r","n","o"," ","2","8","]"," ","N","o"," ","s","p","a",
       "c","e"," ","l","e","f","t"," ","o","n"," ","d","e","v","i","c","e" >>

\* "Upload failed"
MsgUploadFailed ==
    << "U","p","l","o","a","d"," ","f","a","i","l","e","d" >>

\* "413 Client Error: Upload exceeds memory limit"
MsgUploadMemory ==
    << "4","1","3"," ","C","l","i","e","n","t"," ","E","r","r","o","r",":",
       " ","U","p","l","o","a","d"," ","e","x","c","e","e","d","s"," ","m",
       "e","m","o","r","y"," ","l","i","m","i","t" >>

\* "503 Server Error: Service Unavailable"
MsgServerError ==
    << "5","0","3"," ","S","e","r","v","e","r"," ","E","r","r","o","r",":",
       " ","S","e","r","v","i","c","e"," ","U","n","a","v","a","i","l","a",
       "b","l","e" >>

\* "[Errno 2] No such file or directory"
MsgNoFile ==
    << "[","E","r","r","n","o"," ","2","]"," ","N","o"," ","s","u","c","h",
       " ","f","i","l","e"," ","o","r"," ","d","i","r","e","c","t","o","r",
       "y" >>

\* "[Errno 13] Permission denied"
MsgPermission ==
    << "[","E","r","r","n","o"," ","1","3","]"," ","P","e","r","m","i","s",
       "s","i","o","n"," ","d","e","n","i","e","d" >>

\* "'config'"
MsgConfigKey ==
    << "'","c","o","n","f","i","g","'" >>

\* "720p"
Res720 ==
    << "7","2","0","p" >>

\* "480p"
Res480 ==
    << "4","8","0","p" >>

\* "1080p"
Res1080 ==
    << "1","0","8","0","p" >>

\* "7"
SeedText ==
    << "7" >>

\* "Unsupported resolution: "
UnsupportedPrefix ==
    << "U","n","s","u","p","p","o","r","t","e","d"," ","r","e","s","o","l",
       "u","t","i","o","n",":"," " >>

\* ". Use '720p' or '480p'"
UnsupportedSuffix ==
    << "."," ","U","s","e"," ","'","7","2","0","p","'"," ","o","r"," ","'",
       "4","8","0","p","'" >>

\* "Missing required parameters: image_url and prompt"
MissingMsg ==
    << "M","i","s","s","i","n","g"," ","r","e","q","u","i","r","e","d"," ",
       "p","a","r","a","m","e","t","e","r","s",":"," ","i","m","a","g","e",
       "_","u","r","l"," ","a","n","d"," ","p","r","o","m","p","t" >>
(***************************************************************************)
(* Python values and dicts                                                 *)
(***************************************************************************)
PyNone == [t |-> "NoneType"]
PyStr(s) == [t |-> "str", v |-> s]
PyInt(n) == [t |-> "int", v |-> n]

\* bool(x)
Truthy(x) ==
    CASE x.t = "NoneType" -> FALSE
      [] x.t = "str" -> Len(x.v) > 0
      [] x.t = "int" -> x.v # 0

EmptyDict == [k \in {} |-> PyNone]

\* dict.get(k, d)
Get(m, k, d) == IF k \in DOMAIN m THEN m[k] ELSE d

\* an exception object; str(e) is e.msg
Exc(type, msg) == [type |-> type, msg |-> msg]

\* classes derived from Exception
ExceptionClasses ==
    { "RuntimeError", "HTTPError", "OSError", "TypeError", "KeyError",
      "OutOfMemoryError", "FileNotFoundError", "PermissionError",
      "UnidentifiedImageError" }

Returned(v) == [raised |-> FALSE, value |-> v]
Raised(e) == [raised |-> TRUE, exc |-> e]

(***************************************************************************)
(* Log entries                                                             *)
(***************************************************************************)
Yield(ev) == [kind |-> "yield", ev |-> ev]
Call(fn, outcome) == [kind |-> "call", fn |-> fn, outcome |-> outcome]

\* the elapsed time `time.time() - start_time`; its value is not modelled
Elapsed == "elapsed"

Progress(status, progress, message) ==
    [status |-> status, progress |-> progress, message |-> message,
     timestamp |-> Elapsed]

(***************************************************************************)
(* async_generator_handler, lines 105-138: validation                      *)
(***************************************************************************)
\* a validation that forgets the prompt
Missing_UrlOnly(image_url, prompt) == ~Truthy(image_url)

\* a validation that tests `is None` instead of truthiness
Missing_NoneOnly(image_url, prompt) ==
    image_url.t = "NoneType" \/ prompt.t = "NoneType"

\* line 108: the test that rejects the job for a missing parameter
Missing(image_url, prompt) == ~Truthy(image_url) \/ ~Truthy(prompt)

MissingEvent ==
    [error |-> MissingMsg, error_code |-> "INVALID_INPUT", status |-> "failed"]

UnsupportedEvent(resolution) ==
    [error |-> UnsupportedPrefix \o resolution.v \o UnsupportedSuffix,
     error_code |-> "INVALID_INPUT", status |-> "failed"]

\* lines 124-138: resolution -> (size_key, shift), or unsupported
ResolveParams(resolution) ==
    IF resolution = PyStr(Res720)
    THEN [ok |-> TRUE, size_key |-> "1280*720", shift |-> "5.0"]
    ELSE IF resolution = PyStr(Res480)
    THEN [ok |-> TRUE, size_key |-> "832*480", shift |-> "3.0"]
    ELSE [ok |-> FALSE]

\* lines 105-138 as a whole: the event of an early return, or the parameters
Validate(job_input) ==
    LET image_url == Get(job_input, "image_url", PyNone)
        prompt == Get(job_input, "prompt", PyNone)
        resolution == Get(job_input, "resolution", PyStr(Res720))
    IN  IF Missing(image_url, prompt)
        THEN [ok |-> FALSE, event |-> MissingEvent]
        ELSE IF ~ResolveParams(resolution).ok
        THEN [ok |-> FALSE, event |-> UnsupportedEvent(resolution)]
        ELSE [ok |-> TRUE, params |-> ResolveParams(resolution)]

(***************************************************************************)
(* async_generator_handler, lines 237-258: the exception handler           *)
(***************************************************************************)
\* a handler that catches RuntimeError only
Catches_RuntimeErrorOnly(e) == e.type = "RuntimeError"

\* line 237: `except Exception`
Catches(e) == e.type \in ExceptionClasses

\* a classification without the "upload" branch
Classify_NoUpload(msg) ==
    LET s == Lower(msg)
    IN  IF Contains(s, KwDownload) THEN "DOWNLOAD_ERROR"
        ELSE IF Contains(s, KwModel) THEN "MODEL_ERROR"
        ELSE IF Contains(s, KwMemory) \/ Contains(s, KwCuda) THEN "MEMORY_ERROR"
        ELSE "GENERATION_ERROR"

\* a classification that tests "model" before "download"
Classify_ModelFirst(msg) ==
    LET s == Lower(msg)
    IN  IF Contains(s, KwModel) THEN "MODEL_ERROR"
        ELSE IF Contains(s, KwDownload) THEN "DOWNLOAD_ERROR"
        ELSE IF Contains(s, KwMemory) \/ Contains(s, KwCuda) THEN "MEMORY_ERROR"
        ELSE IF Contains(s, KwUpload) THEN "UPLOAD_ERROR"
        ELSE "GENERATION_ERROR"

\* lines 241-250
Classify(msg) ==
    LET s == Lower(msg)
    IN  IF Contains(s, KwDownload) THEN "DOWNLOAD_ERROR"
        ELSE IF Contains(s, KwModel) THEN "MODEL_ERROR"
        ELSE IF Contains(s, KwMemory) \/ Contains(s, KwCuda) THEN "MEMORY_ERROR"
        ELSE IF Contains(s, KwUpload) THEN "UPLOAD_ERROR"
        ELSE "GENERATION_ERROR"

\* lines 252-258
FailedEvent(e) ==
    [error |-> e.msg, error_code |-> Classify(e.msg), status |-> "failed",
     processing_time |-> Elapsed, timestamp |-> Elapsed]

\* Where an exception raised inside the try block leaves the generator, and
\* what it yields on the way.
Handle(e) ==
    IF Catches(e)
    THEN [pc |-> "yield_failed", out |-> << Yield(FailedEvent(e)) >>]
    ELSE [pc |-> "raised", out |-> << >>]

(***************************************************************************)
(* Collaborators.  What the network, the file system and the model library *)
(* do is chosen by the environment; the code around them is computed.      *)
(***************************************************************************)
NoFault == [type |-> "none"]

\* what requests.get / raise_for_status / Image.open can raise (lines 30-40)
FetchFaults ==
    { Exc("HTTPError", FetchErrHttp),
      Exc("UnidentifiedImageError", FetchErrDecode) }

\* lines 26-47: any exception of the body is re-raised as RuntimeError
download_image(url, fault) ==
    IF fault.type = "none"
    THEN Returned("image")
    ELSE Raised(Exc("RuntimeError",
                    DownloadPrefix \o url \o ColonSpace \o fault.msg))

\* what requests.post / raise_for_status can raise (lines 56-61)
UploadFaults ==
    { Exc("HTTPError", MsgServerError),
      Exc("HTTPError", MsgUploadFailed),
      Exc("HTTPError", MsgUploadMemory) }

\* lines 49-62: open(path) needs the file; the HTTP errors are not wrapped
_upload(pathExists, fault) ==
    IF ~pathExists
    THEN Raised(Exc("FileNotFoundError", MsgNoFile))
    ELSE IF fault.type = "none"
    THEN Returned("video_url")
    ELSE Raised(fault)

\* what wan.WanI2V(...) can raise (lines 80-89)
ConstructFaults ==
    { Exc("OutOfMemoryError", MsgCudaOom),
      Exc("RuntimeError", MsgStateDict) }

\* what model.generate(...) can raise (lines 170-182)
GenerateFaults ==
    { Exc("OutOfMemoryError", MsgCudaOom),
      Exc("RuntimeError", MsgDevice) }

\* what cache_video(...) can raise (lines 198-205)
EncodeFaults == { Exc("OSError", MsgNoSpace) }

\* what os.unlink can raise (line 219)
UnlinkFaults == { Exc("PermissionError", MsgPermission) }

\* a load_model without the cache test
CacheMiss_Always(cache) == TRUE

\* a load_model that treats a construction in progress as a loaded model
CacheMiss_UnlessLoading(cache) ==
    /\ "wan_i2v" \notin DOMAIN cache
    /\ \A k \in Slots :
         pc[k] \notin { "load_construct", "load_store_model",
                        "load_store_config" }

\* line 68: the lazy-initialisation test
CacheMiss(cache) == "wan_i2v" \notin DOMAIN cache

\* dict[k] = v
Put(m, k, v) == [x \in DOMAIN m \cup {k} |-> IF x = k THEN v ELSE m[x]]

\* line 95: `return model_cache['wan_i2v'], model_cache['config']`
LoadReturn(cache) ==
    IF "wan_i2v" \in DOMAIN cache /\ "config" \in DOMAIN cache
    THEN Returned(cache["wan_i2v"])
    ELSE Raised(Exc("KeyError", MsgConfigKey))

\* line 180: `seed >= 0` is defined for numbers only
SeedArg(job_input) ==
    LET seed == Get(job_input, "seed", PyInt(-1))
    IN  IF seed.t = "int"
        THEN Returned(IF seed.v >= 0 THEN seed.v ELSE -1)
        ELSE Raised(Exc("TypeError", MsgSeedType))

(***************************************************************************)
(* Jobs                                                                    *)
(***************************************************************************)
Absent == [t |-> "absent"]

Entry(k, opt) == IF opt.t = "absent" THEN EmptyDict ELSE (k :> opt)

UrlOpts == { Absent, PyStr(<< >>), PyStr(ImgUrl), PyStr(ModelImgUrl) }
PromptOpts == { Absent, PyStr(<< >>), PyStr(PromptText) }
ResOpts == { Absent, PyStr(Res720), PyStr(Res480), PyStr(Res1080) }
SeedOpts == { Absent, PyInt(7), PyStr(SeedText) }

JobInputs ==
    { Entry("image_url", u) @@ Entry("prompt", p)
        @@ Entry("resolution", r) @@ Entry("seed", s) :
      u \in UrlOpts, p \in PromptOpts, r \in ResOpts, s \in SeedOpts }

\* a job envelope; "input" may be missing (line 99 then uses {})
Jobs == { EmptyDict } \cup { ("input" :> ji) : ji \in JobInputs }

\* the jobs offered to a host that runs two handlers at once
ThreadJobs ==
    { ("input" :> (Entry("image_url", PyStr(ImgUrl))
                     @@ Entry("prompt", p) @@ Entry("resolution", r))) :
      p \in { Absent, PyStr(PromptText) }, r \in { Absent, PyStr(Res1080) } }

JobsOf(h) == IF h = "serial" THEN Jobs ELSE ThreadJobs

job_input(j) == Get(job[j], "input", EmptyDict)

\* output_path exists (os.path.exists, and what open() finds)
PathExists(j) == jobno[j] \in files

(***************************************************************************)
(* State machine                                                           *)
(***************************************************************************)
Init ==
    /\ host \in { "serial", "threads" }
    /\ model_cache = EmptyDict
    /\ constructions = 0
    /\ files = {}
    /\ jobsStarted = 0
    /\ pc = [j \in Slots |-> "idle"]
    /\ job = [j \in Slots |-> EmptyDict]
    /\ jobno = [j \in Slots |-> 0]
    /\ built = [j \in Slots |-> 0]
    /\ model = [j \in Slots |-> 0]
    /\ log = [j \in Slots |-> << >>]

\* a slot the host may hand a new job to: a serial host runs its jobs one
\* after another in the first slot, a threads host runs one job per thread
Free(j) ==
    IF host = "serial"
    THEN j = 1 /\ pc[j] \in { "idle", "done" }
    ELSE pc[j] = "idle"

\* the host calls async_generator_handler(job): a new generator, not yet run
StartJob(j) ==
    /\ Free(j)
    /\ jobsStarted < MaxJobs
    /\ \E jb \in JobsOf(host) : job' = [job EXCEPT ![j] = jb]
    /\ jobsStarted' = jobsStarted + 1
    /\ jobno' = [jobno EXCEPT ![j] = jobsStarted + 1]
    /\ pc' = [pc EXCEPT ![j] = "start"]
    /\ log' = [log EXCEPT ![j] = << >>]
    /\ built' = [built EXCEPT ![j] = 0]
    /\ model' = [model EXCEPT ![j] = 0]
    /\ UNCHANGED << host, model_cache, constructions, files >>

\* lines 99-146: up to the first yield
Resume_Validate(j) ==
    /\ pc[j] = "start"
    /\ LET v == Validate(job_input(j))
       IN  IF v.ok
           THEN /\ pc' = [pc EXCEPT ![j] = "at_download"]
                /\ log' = [log EXCEPT ![j] = @ \o
                     << Yield(Progress("downloading", 10,
                                       "Downloading input image...")) >>]
           ELSE /\ pc' = [pc EXCEPT ![j] = "yield_invalid"]
                /\ log' = [log EXCEPT ![j] = @ \o << Yield(v.event) >>]
    /\ UNCHANGED << host, model_cache, constructions, files, jobsStarted,
                    job, jobno, built, model >>

\* lines 148-156: download_image, then yield "loading"
Resume_Download(j) ==
    /\ pc[j] = "at_download"
    /\ \E fault \in { NoFault } \cup FetchFaults :
         LET r == download_image(job_input(j)["image_url"].v, fault)
             h == IF r.raised THEN Handle(r.exc)
                  ELSE [pc |-> "at_load",
                        out |-> << Yield(Progress("loading", 20,
                                                  "Loading model...")) >>]
         IN  /\ pc' = [pc EXCEPT ![j] = h.pc]
             /\ log' = [log EXCEPT ![j] = @ \o
                  << Call("download_image",
                          IF r.raised THEN "raised" ELSE "ok") >> \o h.out]
    /\ UNCHANGED << host, model_cache, constructions, files, jobsStarted,
                    job, jobno, built, model >>

\* a handler that goes on to generate without the "generating" yield
AfterLoad_NoYield(r) ==
    IF r.raised THEN Handle(r.exc)
    ELSE [pc |-> "at_generate", out |-> << >>]

\* The "generating" yield of lines 161-166 that follows load_model's return.
AfterLoad(r) ==
    IF r.raised THEN Handle(r.exc)
    ELSE [pc |-> "at_generate",
          out |-> << Yield(Progress("generating", 30,
                                    "Starting video generation...")) >>]

\* line 158 and load_model lines 68-74 (and line 95 when the key is there):
\* the lazy-initialisation test, the path test, the cached return
Resume_Load(j) ==
    /\ pc[j] = "at_load"
    /\ \E pathFound \in BOOLEAN :
         IF CacheMiss(model_cache)
         THEN IF pathFound
              THEN /\ pc' = [pc EXCEPT ![j] = "load_construct"]
                   /\ log' = [log EXCEPT ![j] = @ \o
                        << Call("load_model", "miss") >>]
                   /\ model' = model
              ELSE LET h == Handle(Exc("RuntimeError",
                                       ModelPathPrefix \o DefaultModelPath))
                   IN  /\ pc' = [pc EXCEPT ![j] = h.pc]
                       /\ log' = [log EXCEPT ![j] = @ \o
                            << Call("load_model", "raised") >> \o h.out]
                       /\ model' = model
         ELSE LET r == LoadReturn(model_cache)
                  h == AfterLoad(r)
              IN  /\ pc' = [pc EXCEPT ![j] = h.pc]
                  /\ log' = [log EXCEPT ![j] = @ \o
                       << Call("load_model",
                               IF r.raised THEN "raised" ELSE "cached") >>
                       \o h.out]
                  /\ model' = [model EXCEPT ![j] =
                                 IF r.raised THEN @ ELSE r.value]
    /\ UNCHANGED << host, model_cache, constructions, files, jobsStarted,
                    job, jobno, built >>

\* load_model lines 77-89: the wan.WanI2V(...) call
Load_Construct(j) ==
    /\ pc[j] = "load_construct"
    /\ constructions' = constructions + 1
    /\ \E fault \in { NoFault } \cup ConstructFaults :
         IF fault.type = "none"
         THEN /\ built' = [built EXCEPT ![j] = constructions + 1]
              /\ pc' = [pc EXCEPT ![j] = "load_store_model"]
              /\ log' = [log EXCEPT ![j] = @ \o << Call("wan.WanI2V", "ok") >>]
         ELSE LET h == Handle(fault)
              IN  /\ built' = built
                  /\ pc' = [pc EXCEPT ![j] = h.pc]
                  /\ log' = [log EXCEPT ![j] = @ \o
                       << Call("wan.WanI2V", "raised") >> \o h.out]
    /\ UNCHANGED << host, model_cache, files, jobsStarted, job, jobno, model >>

\* load_model line 91
Load_StoreModel(j) ==
    /\ pc[j] = "load_store_model"
    /\ model_cache' = Put(model_cache, "wan_i2v", built[j])
    /\ pc' = [pc EXCEPT ![j] = "load_store_config"]
    /\ UNCHANGED << host, constructions, files, jobsStarted, job, jobno,
                    built, model, log >>

\* load_model lines 92-95, then lines 158-166
Load_StoreConfig(j) ==
    /\ pc[j] = "load_store_config"
    /\ model_cache' = Put(model_cache, "config", "i2v-14B")
    /\ LET r == LoadReturn(model_cache')
           h == AfterLoad(r)
       IN  /\ pc' = [pc EXCEPT ![j] = h.pc]
           /\ log' = [log EXCEPT ![j] = @ \o h.out]
           /\ model' = [model EXCEPT ![j] = IF r.raised THEN @ ELSE r.value]
    /\ UNCHANGED << host, constructions, files, jobsStarted, job, jobno,
                    built >>

\* lines 168-190: model.generate, then yield "saving"
Resume_Generate(j) ==
    /\ pc[j] = "at_generate"
    /\ \E fault \in { NoFault } \cup GenerateFaults :
         LET seed == SeedArg(job_input(j))
             r == IF seed.raised THEN seed
                  ELSE IF fault.type = "none" THEN Returned("video")
                  ELSE Raised(fault)
             called == IF seed.raised THEN << >>
                       ELSE << Call("model.generate",
                                    IF r.raised THEN "raised" ELSE "ok") >>
             h == IF r.raised THEN Handle(r.exc)
                  ELSE [pc |-> "at_save",
                        out |-> << Yield(Progress("saving", 80,
                                                  "Saving video...")) >>]
         IN  /\ pc' = [pc EXCEPT ![j] = h.pc]
             /\ log' = [log EXCEPT ![j] = @ \o called \o h.out]
    /\ UNCHANGED << host, model_cache, constructions, files, jobsStarted,
                    job, jobno, built, model >>

\* lines 192-213: cache_video, then yield "uploading".  cache_video either
\* writes output_path, returns without having written it, or raises.
Resume_Save(j) ==
    /\ pc[j] = "at_save"
    /\ \E outcome \in { "ok", "nofile", "raised" } :
         LET h == IF outcome = "raised"
                  THEN Handle(CHOOSE e \in EncodeFaults : TRUE)
                  ELSE [pc |-> "at_upload",
                        out |-> << Yield(Progress("uploading", 90,
                                                  "Uploading video...")) >>]
         IN  /\ files' = IF outcome = "ok" THEN files \cup { jobno[j] }
                         ELSE files
             /\ pc' = [pc EXCEPT ![j] = h.pc]
             /\ log' = [log EXCEPT ![j] = @ \o
                  << Call("cache_video", outcome) >> \o h.out]
    /\ UNCHANGED << host, model_cache, constructions, jobsStarted,
                    job, jobno, built, model >>

\* lines 224-233
CompletedEvent(ji) ==
    [video_url |-> "video_url", duration |-> "5.0",
     resolution |-> Get(ji, "resolution", PyStr(Res720)),
     seed |-> Get(ji, "seed", PyInt(-1)),
     processing_time |-> Elapsed, status |-> "completed",
     message |-> "Video generation completed", timestamp |-> Elapsed]

\* a cleanup in a `finally` clause
Cleanup_Always(uploaded, exists) == exists

\* lines 215-219: os.unlink is reached only when _upload has returned, and is
\* called only if the file exists
Cleanup(uploaded, exists) == uploaded /\ exists

\* lines 215-233: _upload, delete output_path, then yield the result
Resume_Upload(j) ==
    /\ pc[j] = "at_upload"
    /\ \E fault \in { NoFault } \cup UploadFaults,
          unlinkFault \in { NoFault } \cup UnlinkFaults :
         LET r == _upload(PathExists(j), fault)
             attempt == Cleanup(~r.raised, PathExists(j))
             unlinked == attempt /\ unlinkFault.type = "none"
             h == IF r.raised THEN Handle(r.exc)
                  ELSE IF attempt /\ ~unlinked
                  THEN Handle(unlinkFault)
                  ELSE [pc |-> "yield_completed",
                        out |-> << Yield(CompletedEvent(job_input(j))) >>]
         IN  /\ files' = IF unlinked THEN files \ { jobno[j] } ELSE files
             /\ pc' = [pc EXCEPT ![j] = h.pc]
             /\ log' = [log EXCEPT ![j] = @ \o
                  << Call("_upload", IF r.raised THEN "raised" ELSE "ok") >>
                  \o h.out]
    /\ UNCHANGED << host, model_cache, constructions, jobsStarted,
                    job, jobno, built, model >>

\* the resumption after a terminal yield: `return` (lines 114, 138), the end
\* of the try body (line 235) or of the handler (line 258)
Resume_Return(j) ==
    /\ pc[j] \in { "yield_invalid", "yield_completed", "yield_failed" }
    /\ pc' = [pc EXCEPT ![j] = "done"]
    /\ UNCHANGED << host, model_cache, constructions, files, jobsStarted,
                    job, jobno, built, model, log >>

\* one step of the handler running in slot j
Step(j) ==
    \/ Resume_Validate(j)
    \/ Resume_Download(j)
    \/ Resume_Load(j)
    \/ Load_Construct(j)
    \/ Load_StoreModel(j)
    \/ Load_StoreConfig(j)
    \/ Resume_Generate(j)
    \/ Resume_Save(j)
    \/ Resume_Upload(j)
    \/ Resume_Return(j)

Next == \E j \in Slots : StartJob(j) \/ Step(j)

Spec == Init /\ [][Next]_vars

(***************************************************************************)
(* Views of a slot's log                                                   *)
(***************************************************************************)
IsYield(e) == e.kind = "yield"
IsCall(e) == e.kind = "call"

\* the events the handler has yielded, in order
Events(j) ==
    LET ys == SelectSeq(log[j], IsYield)
    IN  [i \in 1..Len(ys) |-> ys[i].ev]

\* the collaborator calls the handler has made, in order
Calls(j) == SelectSeq(log[j], IsCall)

Terminal(ev) == ev.status \in { "completed", "failed" }

TerminalAt(j) ==
    { i \in 1..Len(log[j]) : IsYield(log[j][i]) /\ Terminal(log[j][i].ev) }

Called(j, fn, outcome) ==
    \E i \in 1..Len(log[j]) : log[j][i] = Call(fn, outcome)

LastEvent(j) == Events(j)[Len(Events(j))]

AfterTerminal(j) ==
    pc[j] \in { "yield_invalid", "yield_completed", "yield_failed", "done" }

Has(ji, k) == k \in DOMAIN ji

BadResolution(ji) ==
    Has(ji, "resolution") /\ ji["resolution"].v \notin { Res720, Res480 }

Statuses(j) == [i \in 1..Len(Events(j)) |-> Events(j)[i].status]

(***************************************************************************)
(* C1: for every job and every outcome of the fetch, model-acquire,        *)
(* generate, encode and upload steps, the handler emits exactly one        *)
(* terminal event (completed or failed), that event is the last thing it   *)
(* does, a job that has ended has emitted one, and no exception escapes to *)
(* the caller.                                                             *)
(***************************************************************************)
C1_OneTerminalEvent ==
    \A j \in Slots :
        /\ pc[j] # "raised"
        /\ Cardinality(TerminalAt(j)) <= 1
        /\ \A i \in TerminalAt(j) : i = Len(log[j])
        /\ AfterTerminal(j) <=> (pc[j] # "idle" /\ TerminalAt(j) # {})

C1_Witness ==
    \E j \in Slots :
        /\ pc[j] = "done"
        /\ Called(j, "_upload", "raised")
        /\ LastEvent(j).status = "failed"
        /\ Len(Events(j)) = 6

(***************************************************************************)
(* C2: a job whose input lacks image_url or prompt, or whose resolution is *)
(* neither "720p" nor "480p", yields exactly one event, a failure with     *)
(* error_code INVALID_INPUT, and calls no collaborator.                    *)
(***************************************************************************)
C2_InvalidInput ==
    \A j \in Slots :
        LET ji == job_input(j)
        IN  ( /\ pc[j] \notin { "idle", "start" }
              /\ \/ ~Has(ji, "image_url")
                 \/ ~Has(ji, "prompt")
                 \/ BadResolution(ji) )
            => /\ Len(Events(j)) = 1
               /\ Events(j)[1].status = "failed"
               /\ Events(j)[1].error_code = "INVALID_INPUT"
               /\ Calls(j) = << >>

C2_Witness ==
    \E j \in Slots :
        /\ pc[j] = "done"
        /\ Has(job_input(j), "image_url") /\ Has(job_input(j), "prompt")
        /\ Truthy(job_input(j)["image_url"])
        /\ Truthy(job_input(j)["prompt"])
        /\ BadResolution(job_input(j))
        /\ Events(j)[1].error_code = "INVALID_INPUT"

StepStatus(fn) ==
    CASE fn = "download_image" -> "downloading"
      [] fn = "load_model" -> "loading"
      [] fn = "wan.WanI2V" -> "loading"
      [] fn = "model.generate" -> "generating"
      [] fn = "cache_video" -> "saving"
      [] fn = "_upload" -> "uploading"

\* the positions of the yields that precede position i of the log
YieldsBefore(j, i) == { k \in 1..(i - 1) : IsYield(log[j][k]) }

Max(S) == CHOOSE x \in S : \A y \in S : y <= x

(***************************************************************************)
(* C3: a successful job yields the statuses downloading, loading,          *)
(* generating, saving, uploading, completed in that order, with progress   *)
(* 10, 20, 30, 80, 90 on the first five; and whenever a collaborator is    *)
(* called, the last event yielded before the call is the progress event of *)
(* that collaborator's step.                                               *)
(***************************************************************************)
C3_SuccessSequence ==
    \A j \in Slots :
        /\ (Len(Events(j)) > 0 /\ LastEvent(j).status = "completed")
           => /\ Statuses(j) = << "downloading", "loading", "generating",
                                  "saving", "uploading", "completed" >>
              /\ [i \in 1..5 |-> Events(j)[i].progress]
                   = << 10, 20, 30, 80, 90 >>
        /\ \A i \in 1..Len(log[j]) :
             IsCall(log[j][i])
             => /\ YieldsBefore(j, i) # {}
                /\ log[j][Max(YieldsBefore(j, i))].ev.status
                     = StepStatus(log[j][i].fn)

C3_Witness ==
    \E j \in Slots :
        /\ pc[j] = "yield_completed"
        /\ LastEvent(j).status = "completed"
        /\ Len(Calls(j)) >= 5

Populated == "wan_i2v" \in DOMAIN model_cache /\ "config" \in DOMAIN model_cache

(***************************************************************************)
(* C4: when jobs run one after another, once model_cache holds the model   *)
(* and its config, no step constructs a model again or changes the cache,  *)
(* and a loading step returns the cached handle.                           *)
(***************************************************************************)
C4_CachedModelReused ==
    [][ (host = "serial" /\ Populated)
        => /\ model_cache' = model_cache
           /\ constructions' = constructions
           /\ \A j \in Slots :
                (pc[j] = "at_load" /\ pc'[j] # "at_load")
                => /\ pc'[j] = "at_generate"
                   /\ model'[j] = model_cache["wan_i2v"]
                   /\ log'[j][Len(log[j]) + 1] = Call("load_model", "cached")
      ]_vars

C4_Witness ==
    /\ host = "serial"
    /\ jobsStarted >= 2
    /\ constructions = 1
    /\ pc[1] = "at_generate"
    /\ Called(1, "load_model", "cached")
    /\ model[1] = model_cache["wan_i2v"]

\* the failure event of a job whose _upload call raised
UploadFailure(j) == Called(j, "_upload", "raised") /\ AfterTerminal(j)

Mentions(ev, kw) == Contains(Lower(ev.error), kw)

\* C5 as stated: if the upload step raises an exception whose lowercase
\* text contains "upload", the failure event has error_code UPLOAD_ERROR.
C5_Original ==
    \A j \in Slots :
        (UploadFailure(j) /\ Mentions(LastEvent(j), KwUpload))
        => LastEvent(j).error_code = "UPLOAD_ERROR"

\* C5 as amended: if the upload step raises an exception whose lowercase
\* text contains "upload" and none of "download", "model", "memory", "cuda",
\* the failure event has error_code UPLOAD_ERROR.
C5_UploadError ==
    \A j \in Slots :
        ( /\ UploadFailure(j)
          /\ Mentions(LastEvent(j), KwUpload)
          /\ \A kw \in { KwDownload, KwModel, KwMemory, KwCuda } :
               ~Mentions(LastEvent(j), kw) )
        => LastEvent(j).error_code = "UPLOAD_ERROR"

C5_Witness ==
    \E j \in Slots :
        /\ UploadFailure(j)
        /\ LastEvent(j).error = MsgUploadFailed
        /\ LastEvent(j).error_code = "UPLOAD_ERROR"

FailureFields ==
    { "error", "error_code", "status", "processing_time", "timestamp" }

(***************************************************************************)
(* C6: every terminal failure event, the INVALID_INPUT failures of         *)
(* validation included, has the fields error, error_code, status,          *)
(* processing_time and timestamp.                                          *)
(***************************************************************************)
C6_FailureShape ==
    \A j \in Slots :
        \A i \in 1..Len(Events(j)) :
            Events(j)[i].status = "failed"
            => DOMAIN Events(j)[i] = FailureFields

Rejected(j) ==
    /\ Len(Events(j)) > 0
    /\ Events(j)[1].status = "failed"
    /\ Events(j)[1].error_code = "INVALID_INPUT"

Validated(j) == pc[j] \notin { "idle", "start" }

\* C8 as stated: validation rejects a job only when image_url or prompt is
\* absent or the resolution is unsupported; a job whose prompt or image_url
\* is present but empty is not rejected and reaches the downloading step.
C8_Original ==
    \A j \in Slots :
        LET ji == job_input(j)
        IN  (Validated(j) /\ Rejected(j))
            => \/ ~Has(ji, "image_url")
               \/ ~Has(ji, "prompt")
               \/ BadResolution(ji)

Empty(ji, k) == Has(ji, k) /\ ji[k] = PyStr(<< >>)

\* C8 as amended: validation rejects a job exactly when image_url or prompt
\* is absent or empty, or the resolution is unsupported; a job whose prompt
\* or image_url is the empty string is rejected with INVALID_INPUT and does
\* not reach the downloading step.
C8_Validation ==
    \A j \in Slots :
        LET ji == job_input(j)
        IN  Validated(j)
            => /\ Rejected(j)
                  <=> \/ ~Has(ji, "image_url") \/ Empty(ji, "image_url")
                      \/ ~Has(ji, "prompt") \/ Empty(ji, "prompt")
                      \/ BadResolution(ji)
               /\ ~Rejected(j) => Events(j)[1].status = "downloading"
               /\ (Empty(ji, "image_url") \/ Empty(ji, "prompt"))
                  => Calls(j) = << >>

C8_Witness ==
    \E j \in Slots :
        /\ pc[j] = "yield_invalid"
        /\ Has(job_input(j), "image_url")
        /\ Truthy(job_input(j)["image_url"])
        /\ Empty(job_input(j), "prompt")
        /\ ~BadResolution(job_input(j))
        /\ Rejected(j)

StepFailure(ev) == ev.status = "failed" /\ ev.error_code # "INVALID_INPUT"

(***************************************************************************)
(* C9: the error_code of a failure event raised by a step is the first     *)
(* match on the lowercase message: "download", else "model", else "memory" *)
(* or "cuda", else "upload", else GENERATION_ERROR; and every failure of   *)
(* download_image is a DOWNLOAD_ERROR.                                     *)
(***************************************************************************)
C9_Classification ==
    \A j \in Slots :
        /\ \A i \in 1..Len(Events(j)) :
             LET ev == Events(j)[i]
                 d == Mentions(ev, KwDownload)
                 m == Mentions(ev, KwModel)
                 g == Mentions(ev, KwMemory) \/ Mentions(ev, KwCuda)
                 u == Mentions(ev, KwUpload)
             IN  StepFailure(ev)
                 => /\ d => ev.error_code = "DOWNLOAD_ERROR"
                    /\ (~d /\ m) => ev.error_code = "MODEL_ERROR"
                    /\ (~d /\ ~m /\ g) => ev.error_code = "MEMORY_ERROR"
                    /\ (~d /\ ~m /\ ~g /\ u) => ev.error_code = "UPLOAD_ERROR"
                    /\ (~d /\ ~m /\ ~g /\ ~u)
                       => ev.error_code = "GENERATION_ERROR"
        /\ Called(j, "download_image", "raised")
           => /\ LastEvent(j).status = "failed"
              /\ LastEvent(j).error_code = "DOWNLOAD_ERROR"

C9_Witness ==
    \E j \in Slots :
        /\ Called(j, "download_image", "raised")
        /\ Mentions(LastEvent(j), KwModel)
        /\ LastEvent(j).error_code = "DOWNLOAD_ERROR"

C10_State ==
    \A j \in Slots :
        /\ (Len(Events(j)) > 0 /\ LastEvent(j).status = "completed")
           => jobno[j] \notin files
        /\ (Called(j, "cache_video", "ok") /\ Called(j, "_upload", "raised"))
           => /\ LastEvent(j).status = "failed"
              /\ jobno[j] \in files

C10_Step ==
    \A n \in files :
        n \notin files'
        => \E j \in Slots :
             /\ jobno[j] = n
             /\ pc[j] = "at_upload"
             /\ pc'[j] = "yield_completed"
             /\ log'[j][Len(log[j]) + 1] = Call("_upload", "ok")

(***************************************************************************)
(* C10: the encoded file is deleted only by the step in which _upload      *)
(* returned; when the completed event is yielded the file does not exist;  *)
(* and when the encode wrote the file and _upload raised, the file exists  *)
(* after the failed event and is never deleted.                            *)
(***************************************************************************)
C10_ScratchFile == []C10_State /\ [][C10_Step]_vars

C10_Witness ==
    \E j \in Slots :
        /\ pc[j] = "done"
        /\ Called(j, "cache_video", "ok")
        /\ Called(j, "_upload", "raised")
        /\ LastEvent(j).status = "failed"
        /\ jobno[j] \in files

=============================================================================
